---- MODULE Spec2Model ----
(***************************************************************************)
(* Model of context/context.go: the remote resolver                        *)
(* (ResolveRemotesToRepos and the ResolvedRemotes queries) and the         *)
(* filesystem-backed Context (fsContext).                                  *)
(*                                                                         *)
(* Strings that the code parses (the base override "owner/name") are       *)
(* sequences of tokens, the token "/" being the separator; an owner or a   *)
(* repository name is the sequence of tokens on one side of it.            *)
(***************************************************************************)
EXTENDS Integers, Sequences, FiniteSets, TLC

VARIABLES
  pc,        \* "start": before the call; "resolved": returned nil error; "failed": returned the lookup's error
  remotes,   \* the caller's Remotes slice (sort.Stable sorts it in place)
  base,      \* the base argument of ResolveRemotesToRepos
  rr,        \* the ResolvedRemotes value returned
  err,       \* the error returned by ResolveRemotesToRepos
  lookups,   \* the calls made to api.RepoNetwork, each with its candidate list
  first,     \* the first query made on rr and its outcome
  ret,       \* the last query made on rr and its outcome
  c,         \* the fsContext struct
  lastSet,   \* the argument of the last SetAuthToken call, "" before it
  cret       \* the last call made on the fsContext and what it returned

rvars == <<pc, remotes, base, rr, err, lookups, first, ret>>

cvars == <<c, lastSet, cret>>

vars == <<rvars, cvars>>

-----------------------------------------------------------------------------
(* Bounds and fixtures *)

\* number of remotes with a non-preference name a clone may have
MaxOthers == 3

maxRemotesForLookup == 5

Nil == [nil |-> TRUE]

NoErr == [kind |-> "nil"]

None == [op |-> "none"]

PrefNames == <<"upstream", "github", "origin">>

OtherPool == <<"fork", "mirror", "backup", "staging", "legacy">>

Min(a, b) == IF a < b THEN a ELSE b

Range(s) == {s[i] : i \in 1..Len(s)}

Repo(o, n) == [owner |-> <<o>>, name |-> <<n>>]

\* the repository each git remote points to (mirror differs from origin by case only)
RepoOf(n) ==
  CASE n = "upstream" -> Repo("cli", "cli")
    [] n = "github"   -> Repo("gh", "cli")
    [] n = "origin"   -> Repo("me", "cli")
    [] n = "fork"     -> Repo("you", "cli")
    [] n = "mirror"   -> Repo("ME", "CLI")
    [] n = "backup"   -> Repo("bak", "cli")
    [] n = "staging"  -> Repo("stg", "cli")
    [] OTHER          -> Repo("old", "cli")

\* a git remote: its Name, and the owner and name of the repository it points to
Remote(n) == [Name |-> n, owner |-> RepoOf(n).owner, name |-> RepoOf(n).name]

RECURSIVE Perms(_)
Perms(S) ==
  IF S = {} THEN {<<>>}
  ELSE UNION {{<<x>> \o p : p \in Perms(S \ {x})} : x \in S}

RECURSIVE Zip(_, _)
Zip(a, b) ==
  IF a = <<>> THEN b
  ELSE IF b = <<>> THEN a
  ELSE <<a[1], b[1]>> \o Zip(Tail(a), Tail(b))

\* the non-preference names of a clone, in the order git lists them
OtherOrders ==
  UNION {{[i \in 1..k |-> OtherPool[i]], [i \in 1..k |-> OtherPool[k + 1 - i]]} : k \in 0..MaxOthers}

\* the preference names a clone has: none, origin alone, upstream and origin, all three
PrefChoices == {{}, {"origin"}, {"upstream", "origin"}, Range(PrefNames)}

\* the orders in which git lists the remotes of a clone
DiscoveryOrders ==
  UNION {UNION {{p \o o, o \o p, Zip(o, p)} : p \in Perms(S)} :
           S \in PrefChoices, o \in OtherOrders}

RemoteSets == {[i \in 1..Len(d) |-> Remote(d[i])] : d \in DiscoveryOrders}

\* the values of the base argument: none, upstream's repository in another
\* case, backup's repository, a repository no remote points to
Bases ==
  {<<>>, <<"CLI", "/", "cli">>, <<"bak", "/", "cli">>, <<"nobody", "/", "none">>}

\* the repositories RemoteForRepo is asked about: origin's and mirror's in
\* another case, backup's, and the one a renamed repository redirects to
Targets == {Repo("ME", "cli"), Repo("bak", "cli"), Repo("new", "cli")}

-----------------------------------------------------------------------------
(* internal/ghrepo *)

Lower(t) ==
  CASE t = "CLI" -> "cli"
    [] t = "ME"  -> "me"
    [] OTHER     -> t

Fold(s) == [i \in 1..Len(s) |-> Lower(s[i])]

\* strings.EqualFold on the owners and on the names
IsSame(a, b) == Fold(a.owner) = Fold(b.owner) /\ Fold(a.name) = Fold(b.name)

\* strings.SplitN(nwo, "/", 2): owner and name are set only when there are two parts
FromFullName(nwo) ==
  LET slashes == {i \in 1..Len(nwo) : nwo[i] = "/"}
  IN  IF slashes = {} THEN [owner |-> <<>>, name |-> <<>>]
      ELSE LET i == CHOOSE j \in slashes : \A k \in slashes : j <= k
           IN  [owner |-> SubSeq(nwo, 1, i - 1), name |-> SubSeq(nwo, i + 1, Len(nwo))]

FullName(r) == r.owner \o <<"/">> \o r.name

-----------------------------------------------------------------------------
(* Remotes: sort.Interface *)

\* the position of a remote name in the preference order, others last
SortKey(n) ==
  IF \E i \in 1..Len(PrefNames) : PrefNames[i] = n
  THEN CHOOSE i \in 1..Len(PrefNames) : PrefNames[i] = n
  ELSE Len(PrefNames) + 1

Less(a, b) == SortKey(a.Name) < SortKey(b.Name)

\* r goes after every element that is not greater than it
InsertStable(s, r) ==
  LET p == Cardinality({i \in 1..Len(s) : ~Less(r, s[i])})
  IN  SubSeq(s, 1, p) \o <<r>> \o SubSeq(s, p + 1, Len(s))

RECURSIVE StableSort(_)
StableSort(s) ==
  IF s = <<>> THEN <<>>
  ELSE InsertStable(StableSort(SubSeq(s, 1, Len(s) - 1)), s[Len(s)])

-----------------------------------------------------------------------------
(* api: Repository and RepoNetwork *)

Repository(o, n, parent, push) ==
  [owner |-> o, name |-> n, parent |-> parent, canPush |-> push]

IsFork(repo) == repo.parent # Nil

ViewerCanPush(repo) == repo.canPush

ParentRepo == Repository(<<"orig">>, <<"cli">>, Nil, FALSE)

\* what the server may answer for one candidate: the repository under its
\* canonical name, without or with push access, a fork of ParentRepo, or the
\* repository the candidate's name redirects to
Answers(cand) ==
  {Repository(Fold(cand.owner), Fold(cand.name), Nil, FALSE),
   Repository(Fold(cand.owner), Fold(cand.name), Nil, TRUE),
   Repository(Fold(cand.owner), Fold(cand.name), ParentRepo, TRUE),
   Repository(<<"new">>, <<"cli">>, Nil, FALSE)}

\* the metadata arrays of a successful lookup: one slot per candidate, in
\* order, null for a candidate that did not resolve; at most two resolve
NetworkResults(repos) ==
  LET n == Len(repos)
      idx == {S \in SUBSET (1..n) : Cardinality(S) <= 2}
  IN  UNION {{[i \in 1..n |-> IF i \in S THEN f[i] ELSE Nil] :
                f \in {g \in [S -> UNION {Answers(repos[i]) : i \in S}] :
                         \A i \in S : g[i] \in Answers(repos[i])}} : S \in idx}

LookupFailed == [msg |-> "lookup failed"]

\* api.RepoNetwork: the call fails as a whole, or returns one slot per candidate
RepoNetwork(repos) ==
  {[err |-> LookupFailed, result |-> [Repositories |-> <<>>]]}
    \cup {[err |-> NoErr, result |-> [Repositories |-> a]] : a \in NetworkResults(repos)}

-----------------------------------------------------------------------------
(* ResolveRemotesToRepos *)

\* LookupCandidates with the override looked for among all the remotes, not the capped ones
LookupCandidatesUncapped(sorted, b) ==
  LET lenRemotesForLookup == Min(Len(sorted), maxRemotesForLookup)
      hasBaseOverride == b # <<>>
      baseOverride == FromFullName(b)
      top == SubSeq(sorted, 1, lenRemotesForLookup)
      foundBaseOverride == \E i \in 1..Len(sorted) : IsSame(sorted[i], baseOverride)
  IN  IF hasBaseOverride /\ ~foundBaseOverride
      THEN Append(top, baseOverride)
      ELSE top

\* the repos slice handed to api.RepoNetwork, from the sorted remotes
LookupCandidates(sorted, b) ==
  LET lenRemotesForLookup == Min(Len(sorted), maxRemotesForLookup)
      hasBaseOverride == b # <<>>
      baseOverride == FromFullName(b)
      top == SubSeq(sorted, 1, lenRemotesForLookup)
      foundBaseOverride == \E i \in 1..Len(top) : IsSame(top[i], baseOverride)
  IN  IF hasBaseOverride /\ ~foundBaseOverride
      THEN Append(top, baseOverride)
      ELSE top

\* NewResolvedRemotes keeping only the remotes that are looked up
NewResolvedRemotesCapped(sorted, b) ==
  [remotes |-> SubSeq(sorted, 1, Min(Len(sorted), maxRemotesForLookup)),
   baseOverride |-> IF b # <<>> THEN FromFullName(b) ELSE Nil,
   network |-> [Repositories |-> <<>>]]

\* the ResolvedRemotes value built before the lookup
NewResolvedRemotes(sorted, b) ==
  [remotes |-> sorted,
   baseOverride |-> IF b # <<>> THEN FromFullName(b) ELSE Nil,
   network |-> [Repositories |-> <<>>]]

ZeroResolvedRemotes == [remotes |-> <<>>, baseOverride |-> Nil, network |-> [Repositories |-> <<>>]]

ResolveRemotesToRepos ==
  /\ pc = "start"
  /\ LET sorted == StableSort(remotes)
         repos == LookupCandidates(sorted, base)
         result == NewResolvedRemotes(sorted, base)
     IN  /\ remotes' = sorted
         /\ \E out \in RepoNetwork(repos) :
              /\ lookups' = Append(lookups, [repos |-> repos, err |-> out.err, result |-> out.result])
              /\ IF out.err # NoErr
                 THEN /\ rr' = result
                      /\ err' = out.err
                      /\ pc' = "failed"
                 ELSE /\ rr' = [result EXCEPT !.network = out.result]
                      /\ err' = NoErr
                      /\ pc' = "resolved"
  /\ UNCHANGED <<base, first, ret, cvars>>

-----------------------------------------------------------------------------
(* ResolvedRemotes: the queries *)

Ok(v) == [kind |-> "ok", val |-> v]

Fail(e) == [kind |-> "err", err |-> e]

\* a run-time panic: index out of range
Panic == [kind |-> "panic"]

ErrNotFound == [msg |-> "not found"]

ErrNoPushAccess == [msg |-> "none of the repositories have push access"]

ErrRepoNotFound(r) ==
  [msg |-> "failed looking up information about the repository", repo |-> FullName(r)]

\* BaseRepoOverride resolving a fork to its parent, as the scan without an override does
RECURSIVE BaseRepoOverrideParent(_, _)
BaseRepoOverrideParent(r, i) ==
  LET repos == r.network.Repositories
  IN  IF i > Len(repos) THEN Fail(ErrRepoNotFound(r.baseOverride))
      ELSE IF repos[i] # Nil /\ IsSame(repos[i], r.baseOverride)
      THEN (IF IsFork(repos[i]) THEN Ok(repos[i].parent) ELSE Ok(repos[i]))
      ELSE BaseRepoOverrideParent(r, i + 1)

RECURSIVE BaseRepoOverride(_, _)
BaseRepoOverride(r, i) ==
  LET repos == r.network.Repositories
  IN  IF i > Len(repos) THEN Fail(ErrRepoNotFound(r.baseOverride))
      ELSE IF repos[i] # Nil /\ IsSame(repos[i], r.baseOverride) THEN Ok(repos[i])
      ELSE BaseRepoOverride(r, i + 1)

\* BaseRepoFirst returning a fork itself
RECURSIVE BaseRepoFirstNoParent(_, _)
BaseRepoFirstNoParent(r, i) ==
  LET repos == r.network.Repositories
  IN  IF i > Len(repos) THEN Fail(ErrNotFound)
      ELSE IF repos[i] = Nil THEN BaseRepoFirstNoParent(r, i + 1)
      ELSE Ok(repos[i])

RECURSIVE BaseRepoFirst(_, _)
BaseRepoFirst(r, i) ==
  LET repos == r.network.Repositories
  IN  IF i > Len(repos) THEN Fail(ErrNotFound)
      ELSE IF repos[i] = Nil THEN BaseRepoFirst(r, i + 1)
      ELSE IF IsFork(repos[i]) THEN Ok(repos[i].parent)
      ELSE Ok(repos[i])

BaseRepo(r) ==
  IF r.baseOverride # Nil THEN BaseRepoOverride(r, 1) ELSE BaseRepoFirst(r, 1)

\* HeadRepoFrom without the test of push access
RECURSIVE HeadRepoFromAnyRepo(_, _)
HeadRepoFromAnyRepo(r, i) ==
  LET repos == r.network.Repositories
  IN  IF i > Len(repos) THEN Fail(ErrNoPushAccess)
      ELSE IF repos[i] # Nil THEN Ok(repos[i])
      ELSE HeadRepoFromAnyRepo(r, i + 1)

\* HeadRepoFrom failing with the error of the other two queries
RECURSIVE HeadRepoFromNotFound(_, _)
HeadRepoFromNotFound(r, i) ==
  LET repos == r.network.Repositories
  IN  IF i > Len(repos) THEN Fail(ErrNotFound)
      ELSE IF repos[i] # Nil /\ ViewerCanPush(repos[i]) THEN Ok(repos[i])
      ELSE HeadRepoFromNotFound(r, i + 1)

RECURSIVE HeadRepoFrom(_, _)
HeadRepoFrom(r, i) ==
  LET repos == r.network.Repositories
  IN  IF i > Len(repos) THEN Fail(ErrNoPushAccess)
      ELSE IF repos[i] # Nil /\ ViewerCanPush(repos[i]) THEN Ok(repos[i])
      ELSE HeadRepoFrom(r, i + 1)

HeadRepo(r) == HeadRepoFrom(r, 1)

RECURSIVE RemoteForRepoFrom(_, _, _)
RemoteForRepoFrom(r, repo, i) ==
  LET repos == r.network.Repositories
  IN  IF i > Len(r.remotes) THEN Fail(ErrNotFound)
      ELSE IF IsSame(r.remotes[i], repo) THEN Ok(r.remotes[i])
      ELSE IF i > Len(repos) THEN Panic
      ELSE IF repos[i] # Nil /\ IsSame(repos[i], repo) THEN Ok(r.remotes[i])
      ELSE RemoteForRepoFrom(r, repo, i + 1)

RemoteForRepo(r, repo) == RemoteForRepoFrom(r, repo, 1)

\* a query returned: it is the last one, and the first one if none came before
Returned(op, arg, res) ==
  /\ ret' = [op |-> op, arg |-> arg, res |-> res]
  /\ first' = IF first = None THEN [op |-> op, arg |-> arg, res |-> res] ELSE first

\* BaseRepoCall looking the candidates up again
BaseRepoCallRefetch ==
  /\ pc # "start"
  /\ Returned("BaseRepo", Nil, BaseRepo(rr))
  /\ lookups' = Append(lookups, lookups[Len(lookups)])
  /\ UNCHANGED <<pc, remotes, base, rr, err, cvars>>

BaseRepoCall ==
  /\ pc # "start"
  /\ Returned("BaseRepo", Nil, BaseRepo(rr))
  /\ UNCHANGED <<pc, remotes, base, rr, err, lookups, cvars>>

HeadRepoCall ==
  /\ pc # "start"
  /\ Returned("HeadRepo", Nil, HeadRepo(rr))
  /\ UNCHANGED <<pc, remotes, base, rr, err, lookups, cvars>>

RemoteForRepoCall ==
  /\ pc # "start"
  /\ \E repo \in Targets : Returned("RemoteForRepo", repo, RemoteForRepo(rr, repo))
  /\ UNCHANGED <<pc, remotes, base, rr, err, lookups, cvars>>

-----------------------------------------------------------------------------
(* fsContext *)

\* the config file as parsed: the stored token and the logged-in user
ConfigEntry == [Token |-> "filetoken", User |-> "monalisa"]

ErrConfig == [msg |-> "config file"]

ErrGit == [msg |-> "git"]

\* parseOrSetupConfigFile: the entry of the config file, or an error
ParseOrSetupConfigFile ==
  {[entry |-> ConfigEntry, err |-> NoErr], [entry |-> Nil, err |-> ErrConfig]}

\* the tokens SetAuthToken is called with
AuthTokens == {"", "envtoken", "othertoken"}

\* git.CurrentBranch: the branch checked out, or an error
GitCurrentBranch == {[branch |-> "trunk", err |-> NoErr], [branch |-> "", err |-> ErrGit]}

\* the branches SetBranch is called with
Branches == {"", "feature"}

\* git.Remotes and translateRemotes: the remotes of the clone (nil when it has none), or an error
GitRemotes ==
  {[remotes |-> Nil, err |-> ErrGit],
   [remotes |-> Nil, err |-> NoErr],
   [remotes |-> <<Remote("fork"), Remote("origin")>>, err |-> NoErr]}

\* the arguments SetBaseRepo is called with
BaseRepoNames == {<<"cli", "/", "cli">>}

NewContext == [config |-> Nil, remotes |-> Nil, branch |-> "", baseRepo |-> Nil, authToken |-> ""]

\* Remotes.FindByName: the first remote with the first name that any remote has, "*" being any name
RECURSIVE FindByName(_, _)
FindByName(rs, names) ==
  IF names = <<>> THEN [remote |-> Nil, err |-> ErrNotFound]
  ELSE LET hits == {i \in 1..Len(rs) : names[1] = "*" \/ rs[i].Name = names[1]}
       IN  IF hits # {}
           THEN [remote |-> rs[CHOOSE i \in hits : \A j \in hits : i <= j], err |-> NoErr]
           ELSE FindByName(rs, Tail(names))

\* getConfig with what parseOrSetupConfigFile returns if it is called:
\* the struct afterwards, the config returned and the error
getConfig(cc, parsed) ==
  IF cc.config = Nil
  THEN IF parsed.err # NoErr
       THEN [c |-> cc, config |-> Nil, err |-> parsed.err]
       ELSE [c |-> [cc EXCEPT !.config = parsed.entry, !.authToken = ""],
             config |-> parsed.entry, err |-> NoErr]
  ELSE [c |-> cc, config |-> cc.config, err |-> NoErr]

CtxReturned(op, val, e) == cret' = [op |-> op, val |-> val, err |-> e]

AuthToken ==
  /\ IF c.authToken # ""
     THEN /\ CtxReturned("AuthToken", c.authToken, NoErr)
          /\ c' = c
     ELSE \E parsed \in ParseOrSetupConfigFile :
            LET got == getConfig(c, parsed)
            IN  /\ c' = got.c
                /\ IF got.err # NoErr
                   THEN CtxReturned("AuthToken", "", got.err)
                   ELSE CtxReturned("AuthToken", got.config.Token, NoErr)
  /\ UNCHANGED <<lastSet, rvars>>

SetAuthToken ==
  /\ \E t \in AuthTokens :
       /\ c' = [c EXCEPT !.authToken = t]
       /\ lastSet' = t
  /\ CtxReturned("SetAuthToken", "", NoErr)
  /\ UNCHANGED rvars

AuthLogin ==
  /\ \E parsed \in ParseOrSetupConfigFile :
       LET got == getConfig(c, parsed)
       IN  /\ c' = got.c
           /\ IF got.err # NoErr
              THEN CtxReturned("AuthLogin", "", got.err)
              ELSE CtxReturned("AuthLogin", got.config.User, NoErr)
  /\ UNCHANGED <<lastSet, rvars>>

Branch ==
  /\ IF c.branch # ""
     THEN /\ CtxReturned("Branch", c.branch, NoErr)
          /\ c' = c
     ELSE \E git \in GitCurrentBranch :
            IF git.err # NoErr
            THEN /\ CtxReturned("Branch", "", git.err)
                 /\ c' = c
            ELSE /\ c' = [c EXCEPT !.branch = git.branch]
                 /\ CtxReturned("Branch", git.branch, NoErr)
  /\ UNCHANGED <<lastSet, rvars>>

SetBranch ==
  /\ \E b \in Branches : c' = [c EXCEPT !.branch = b]
  /\ CtxReturned("SetBranch", "", NoErr)
  /\ UNCHANGED <<lastSet, rvars>>

\* fsContext.Remotes with what git returns if it is asked: the struct
\* afterwards, the remotes returned and the error
ctxRemotes(cc, git) ==
  IF cc.remotes = Nil
  THEN IF git.err # NoErr
       THEN [c |-> cc, remotes |-> Nil, err |-> git.err]
       ELSE [c |-> [cc EXCEPT !.remotes = git.remotes], remotes |-> git.remotes, err |-> NoErr]
  ELSE [c |-> cc, remotes |-> cc.remotes, err |-> NoErr]

Remotes ==
  /\ \E git \in GitRemotes :
       LET got == ctxRemotes(c, git)
       IN  /\ c' = got.c
           /\ CtxReturned("Remotes", got.remotes, got.err)
  /\ UNCHANGED <<lastSet, rvars>>

CtxBaseRepo ==
  /\ IF c.baseRepo # Nil
     THEN /\ CtxReturned("BaseRepo", c.baseRepo, NoErr)
          /\ c' = c
     ELSE \E git \in GitRemotes :
            LET got == ctxRemotes(c, git)
                rs == IF got.remotes = Nil THEN <<>> ELSE got.remotes
                rem == FindByName(rs, <<"upstream", "github", "origin", "*">>)
            IN  IF got.err # NoErr
                THEN /\ c' = got.c
                     /\ CtxReturned("BaseRepo", Nil, got.err)
                ELSE IF rem.err # NoErr
                THEN /\ c' = got.c
                     /\ CtxReturned("BaseRepo", Nil, rem.err)
                ELSE /\ c' = [got.c EXCEPT !.baseRepo = rem.remote]
                     /\ CtxReturned("BaseRepo", rem.remote, NoErr)
  /\ UNCHANGED <<lastSet, rvars>>

SetBaseRepo ==
  /\ \E nwo \in BaseRepoNames : c' = [c EXCEPT !.baseRepo = FromFullName(nwo)]
  /\ CtxReturned("SetBaseRepo", "", NoErr)
  /\ UNCHANGED <<lastSet, rvars>>

-----------------------------------------------------------------------------

\* no fsContext call is made
CtxIdle ==
  /\ c = NewContext
  /\ lastSet = ""
  /\ cret = None

\* no resolution is made
ResolverIdle ==
  /\ pc = "start"
  /\ remotes = <<>>
  /\ base = <<>>
  /\ rr = ZeroResolvedRemotes
  /\ err = NoErr
  /\ lookups = <<>>
  /\ first = None
  /\ ret = None

Init ==
  /\ pc = "start"
  /\ remotes \in RemoteSets
  /\ base \in Bases
  /\ rr = ZeroResolvedRemotes
  /\ err = NoErr
  /\ lookups = <<>>
  /\ first = None
  /\ ret = None
  /\ CtxIdle

InitCtx ==
  /\ ResolverIdle
  /\ CtxIdle

NextCtx ==
  \/ AuthToken
  \/ SetAuthToken
  \/ AuthLogin
  \/ Branch
  \/ SetBranch
  \/ Remotes
  \/ CtxBaseRepo
  \/ SetBaseRepo

SpecCtx == InitCtx /\ [][NextCtx]_vars

Next ==
  \/ ResolveRemotesToRepos
  \/ BaseRepoCall
  \/ HeadRepoCall
  \/ RemoteForRepoCall

Spec == Init /\ [][Next]_vars

-----------------------------------------------------------------------------
(* Properties *)

Repositories == rr.network.Repositories

MinOf(S) == CHOOSE i \in S : \A j \in S : i <= j

\* the rank of a remote name: upstream, github, origin, then every other name
Rank(n) ==
  CASE n = "upstream" -> 1
    [] n = "github"   -> 2
    [] n = "origin"   -> 3
    [] OTHER          -> 4

\* the position of the remote named n in the sequence s
Pos(s, n) == CHOOSE i \in 1..Len(s) : s[i].Name = n

\* s holds the remotes of d ordered by rank, remotes of equal rank in their order in d
IsStableSortOf(s, d) ==
  /\ Len(s) = Len(d)
  /\ Range(s) = Range(d)
  /\ \A i, j \in 1..Len(s) :
       i < j => \/ Rank(s[i].Name) < Rank(s[j].Name)
                \/ /\ Rank(s[i].Name) = Rank(s[j].Name)
                   /\ Pos(d, s[i].Name) < Pos(d, s[j].Name)

\* the call of ResolveRemotesToRepos returns in this step
Resolves == pc = "start" /\ pc' # "start"

\* remote i of the snapshot matches the target by its own owner and name or
\* by the metadata returned for its own candidate
OwnMatch(i, target) ==
  \/ IsSame(rr.remotes[i], target)
  \/ /\ i <= maxRemotesForLookup
     /\ i <= Len(Repositories)
     /\ Repositories[i] # Nil
     /\ IsSame(Repositories[i], target)

OwnMatches(target) == {i \in 1..Len(rr.remotes) : OwnMatch(i, target)}

\* C1: on a ResolvedRemotes value that ResolveRemotesToRepos returned (here
\* one returned without an error), RemoteForRepo(target) returns the first
\* remote, in stored order, whose own owner/name or whose own lookup result
\* equals the target, and fails with "not found" when there is none; it has
\* no other outcome.
C1_RemoteForRepoFirstMatch ==
  (pc = "resolved" /\ ret.op = "RemoteForRepo") =>
    IF OwnMatches(ret.arg) = {}
    THEN ret.res = Fail(ErrNotFound)
    ELSE ret.res = Ok(rr.remotes[MinOf(OwnMatches(ret.arg))])

\* C2: the candidate list handed to the one lookup is the first min(N, 5)
\* remotes of the stably sorted remote set, in order, followed by the base
\* override as one last entry exactly when a base was given and none of those
\* remotes has its owner/name, case ignored; it has at most 6 entries, and
\* exactly 5 for more than 5 remotes and no override.
C2_CandidateList ==
  [][Resolves =>
       LET repos == lookups'[Len(lookups')].repos
           n == Min(Len(remotes), 5)
           covered == \E i \in 1..n : IsSame(remotes'[i], FromFullName(base))
           appended == base # <<>> /\ ~covered
       IN  /\ IsStableSortOf(remotes', remotes)
           /\ Len(repos) = IF appended THEN n + 1 ELSE n
           /\ \A i \in 1..n : repos[i] = remotes'[i]
           /\ appended => repos[n + 1] = FromFullName(base)
           /\ Len(repos) <= 6
           /\ (Len(remotes) > 5 /\ base = <<>>) => Len(repos) = 5]_vars

\* more than 5 remotes were resolved with an override that none of the first 5 covers
C2_Witness ==
  /\ pc = "resolved"
  /\ Len(rr.remotes) > 5
  /\ Len(lookups[1].repos) = 6
  /\ IsSame(rr.remotes[6], rr.baseOverride)

\* the metadata entries that are not null and have the override's owner/name
OverrideEntries ==
  {i \in 1..Len(Repositories) :
     Repositories[i] # Nil /\ IsSame(Repositories[i], FromFullName(base))}

\* C3: with a base override, BaseRepo() returns the first non-null metadata
\* entry that has the override's owner/name, as it is even when it is a fork,
\* and fails with the error naming the override's owner/name when there is none.
C3_BaseRepoOverride ==
  (base # <<>> /\ ret.op = "BaseRepo") =>
    IF OverrideEntries = {}
    THEN /\ ret.res.kind = "err"
         /\ ret.res.err = ErrRepoNotFound(FromFullName(base))
         /\ ret.res.err.repo = base
    ELSE ret.res = Ok(Repositories[MinOf(OverrideEntries)])

\* BaseRepo() returned the override's repository, a fork, found after an entry of another repository
C3_Witness ==
  /\ base # <<>>
  /\ ret.op = "BaseRepo"
  /\ ret.res.kind = "ok"
  /\ ret.res.val.parent # Nil
  /\ MinOf(OverrideEntries) > 1
  /\ \E i \in 1..(MinOf(OverrideEntries) - 1) : Repositories[i] # Nil

NonNullEntries == {i \in 1..Len(Repositories) : Repositories[i] # Nil}

\* C4: without a base override, BaseRepo() returns the parent of the first
\* non-null metadata entry if that entry is a fork and the entry itself
\* otherwise, and fails with "not found" exactly when no entry is non-null.
C4_BaseRepoFirstNonNull ==
  (base = <<>> /\ ret.op = "BaseRepo") =>
    IF NonNullEntries = {}
    THEN ret.res = Fail(ErrNotFound)
    ELSE LET e == Repositories[MinOf(NonNullEntries)]
         IN  /\ ret.res # Fail(ErrNotFound)
             /\ ret.res = Ok(IF e.parent # Nil THEN e.parent ELSE e)

\* BaseRepo() returned the parent of a fork that follows a null entry and precedes another repository
C4_Witness ==
  /\ base = <<>>
  /\ ret.op = "BaseRepo"
  /\ Len(Repositories) >= 3
  /\ Repositories[1] = Nil
  /\ Repositories[2] # Nil
  /\ Repositories[2].parent # Nil
  /\ Repositories[3] # Nil
  /\ ret.res = Ok(ParentRepo)

PushEntries ==
  {i \in 1..Len(Repositories) : Repositories[i] # Nil /\ Repositories[i].canPush}

\* C5: HeadRepo() returns the first metadata entry that is non-null and has
\* canPush, a fork as it is, and fails with the no-push-access error exactly
\* when there is none.
C5_HeadRepoFirstPush ==
  ret.op = "HeadRepo" =>
    IF PushEntries = {}
    THEN ret.res = Fail(ErrNoPushAccess)
    ELSE /\ ret.res = Ok(Repositories[MinOf(PushEntries)])
         /\ ret.res # Fail(ErrNoPushAccess)

\* HeadRepo() returned a fork found after a null entry and an entry without push access
C5_Witness ==
  /\ ret.op = "HeadRepo"
  /\ ret.res.kind = "ok"
  /\ ret.res.val.parent # Nil
  /\ \E i, j \in 1..Len(Repositories) :
       /\ i < MinOf(PushEntries)
       /\ j < MinOf(PushEntries)
       /\ Repositories[i] = Nil
       /\ Repositories[j] # Nil

\* an empty remote set was resolved without an override and a query was made
EmptyQueried == pc # "start" /\ rr.remotes = <<>> /\ base = <<>> /\ ret # None

\* C6: for an empty remote set resolved without an override, BaseRepo(),
\* HeadRepo() and RemoteForRepo(target) all fail with the "not found" error.
C6_EmptyAllNotFound == EmptyQueried => ret.res = Fail(ErrNotFound)

\* C6 as amended: BaseRepo() and RemoteForRepo(target) fail with the
\* "not found" error and HeadRepo() fails with the no-push-access error.
C6_EmptyFails ==
  EmptyQueried =>
    /\ ret.op \in {"BaseRepo", "RemoteForRepo"} => ret.res = Fail(ErrNotFound)
    /\ ret.op = "HeadRepo" => ret.res = Fail(ErrNoPushAccess)

\* after resolving an empty remote set without an override, RemoteForRepo and then HeadRepo were called
C6_Witness ==
  /\ EmptyQueried
  /\ pc = "resolved"
  /\ first.op = "RemoteForRepo"
  /\ ret.op = "HeadRepo"

\* C7: one call of ResolveRemotesToRepos makes exactly one lookup call; the
\* queries made after it make none, leave the snapshot unchanged, and a query
\* repeated with the same argument returns what the first such query returned.
C7_OneLookupPureQueries ==
  /\ [](/\ pc = "start" => Len(lookups) = 0
        /\ pc # "start" => Len(lookups) = 1
        /\ (ret # None /\ ret.op = first.op /\ ret.arg = first.arg) => ret.res = first.res)
  /\ [][pc # "start" => (rr' = rr /\ lookups' = lookups)]_vars

\* more than 5 remotes and an override were resolved in one lookup, and
\* RemoteForRepo and then HeadRepo were called on the result
C7_Witness ==
  /\ pc = "resolved"
  /\ Len(lookups) = 1
  /\ Len(rr.remotes) > 5
  /\ rr.baseOverride # Nil
  /\ first.op = "RemoteForRepo"
  /\ ret.op = "HeadRepo"
  /\ ret.res.kind = "ok"

\* the snapshot without the remotes beyond the cap
Capped(r) == [r EXCEPT !.remotes = SubSeq(r.remotes, 1, Min(Len(r.remotes), maxRemotesForLookup))]

\* C8: the remotes beyond the cap take no part in a query: every result is
\* the one the snapshot without them gives, and RemoteForRepo returns none of them.
C8_BeyondCapIgnored ==
  /\ ret.op = "BaseRepo" => ret.res = BaseRepo(Capped(rr))
  /\ ret.op = "HeadRepo" => ret.res = HeadRepo(Capped(rr))
  /\ ret.op = "RemoteForRepo" =>
       /\ ret.res = RemoteForRepo(Capped(rr), ret.arg)
       /\ ret.res.kind = "ok" =>
            \E i \in 1..Min(Len(rr.remotes), maxRemotesForLookup) : ret.res.val = rr.remotes[i]

\* C9: when the lookup call fails, ResolveRemotesToRepos returns its error
\* with a ResolvedRemotes holding the whole sorted remote set, the override if
\* one was given and no metadata; it returns an error in no other case, null
\* entries of a successful lookup included.
C9_LookupFailure ==
  [][Resolves =>
       LET call == lookups'[Len(lookups')]
       IN  /\ err' = call.err
           /\ (err' # NoErr) <=> (pc' = "failed")
           /\ call.err # NoErr =>
                /\ IsStableSortOf(rr'.remotes, remotes)
                /\ rr'.baseOverride = (IF base # <<>> THEN FromFullName(base) ELSE Nil)
                /\ rr'.network.Repositories = <<>>
           /\ call.err = NoErr =>
                /\ err' = NoErr
                /\ rr'.network.Repositories = call.result.Repositories]_vars

\* the lookup for more than 5 remotes and an override failed
C9_Witness ==
  /\ pc = "failed"
  /\ err = LookupFailed
  /\ Len(rr.remotes) > 5
  /\ rr.baseOverride # Nil

\* C10: after SetAuthToken(t) with a non-empty t, AuthToken() returns t until
\* the next SetAuthToken, whatever other calls are made in between.
C10_TokenSticks ==
  (cret.op = "AuthToken" /\ lastSet # "") => (cret.err = NoErr /\ cret.val = lastSet)

====
